---- MODULE Spec2Model ----
(***************************************************************************)
(* redux-pack: the promise middleware (src/src/middleware.js) as a state   *)
(* machine.  One originating middleware call, one settlement of a promise  *)
(* and one run of a queued promise reaction are the steps; everything the  *)
(* code passes to store.dispatch, next, a hook or console.error is         *)
(* appended to `trace` in the order the code does it.                      *)
(***************************************************************************)
EXTENDS Integers, Sequences, FiniteSets, TLC

VARIABLES
    trace,          \* observable events, in program order
    uuidCount,      \* number of identifiers uuid.v4() has handed out
    promises,       \* the promise objects actions may carry
    jobs,           \* the host's promise job queue (FIFO)
    closures,       \* per originating call: the variables success/failure close over
    handles,        \* per originating call: the promise returned by promise.then
    calls,          \* per originating call: the action it was called with
    reducerFailsOn, \* lifecycles on which the store's reducer raises
    handleArgs,     \* handle(...): the arguments of the call and NODE_ENV
    handleOutcome   \* handle(...): the handlers it invoked and how it ended

vars == <<trace, uuidCount, promises, jobs, closures, handles, calls, reducerFailsOn,
          handleArgs, handleOutcome>>

(***************************** bounds **************************************)
MaxOps == 2

(***************************** constants.js ********************************)
KEY == [LIFECYCLE |-> "redux-pack/LIFECYCLE", TRANSACTION |-> "redux-pack/TRANSACTION"]

LIFECYCLE == [START |-> "start", SUCCESS |-> "success", FAILURE |-> "failure"]

(***************************** JavaScript values ***************************)
\* Primitive values are strings; "fnReturns"/"fnThrows" stand for a function
\* that returns normally / throws when called.
Undefined == "undefined"

Null == "null"

FunctionValues == {"fnReturns", "fnThrows"}

TypeOf(v) ==
    IF v \in FunctionValues THEN "function"
    ELSE IF v = Undefined THEN "undefined"
    ELSE IF v = Null THEN "object"
    ELSE "string"

Truthy(v) == v \notin {Undefined, Null, ""}

\* obj[k] of a JavaScript object: undefined when the key is absent
Get(obj, k) == IF k \in DOMAIN obj THEN obj[k] ELSE Undefined

EmptyObject == [k \in {} |-> Undefined]

\* {...a, ...b}: keys of b override keys of a
Spread(a, b) ==
    [k \in DOMAIN a \cup DOMAIN b |-> IF k \in DOMAIN b THEN b[k] ELSE a[k]]

\* A value in the `promise` position: whether it is truthy, the typeof of its
\* `then` property, and (for a thenable) which promise object it is.
NotAnObject == [truthy |-> FALSE, then |-> "undefined", pid |-> 0]

ObjectWithoutThen == [truthy |-> TRUE, then |-> "undefined", pid |-> 0]

ObjectWithStringThen == [truthy |-> TRUE, then |-> "string", pid |-> 0]

Thenable(p) == [truthy |-> TRUE, then |-> "function", pid |-> p]

\* The values null and undefined in the action position; any other action is
\* the record of its own properties.
NullAction == [nullish |-> "null"]

UndefinedAction == [nullish |-> "undefined"]

\* action == null (loose equality: null and undefined)
IsNullish(action) == "nullish" \in DOMAIN action

\* action.promise (undefined when the property is absent)
PromiseField(action) == IF "promise" \in DOMAIN action THEN action.promise ELSE NotAnObject

\* the local `meta` of handlePromise: undefined, or an object
MetaField(action) ==
    IF "meta" \in DOMAIN action
    THEN [defined |-> TRUE, props |-> action.meta]
    ELSE [defined |-> FALSE, props |-> EmptyObject]

\* ...meta inside an object literal: nothing when meta is undefined
SpreadOf(meta) == IF meta.defined THEN meta.props ELSE EmptyObject

(***************************** observable events ***************************)
EvCall(op, action) == [ev |-> "call", op |-> op, action |-> action]

EvDispatch(op, action) == [ev |-> "dispatch", op |-> op, action |-> action]

EvNext(op, action) == [ev |-> "next", op |-> op, action |-> action]

EvHook(op, hook, arg, threw) ==
    [ev |-> "hook", op |-> op, hook |-> hook, args |-> <<arg, "getState">>, threw |-> threw]

EvConsoleError(op) == [ev |-> "console.error", op |-> op]

EvContinuation(op, which, arg) == [ev |-> "continuation", op |-> op, which |-> which, arg |-> arg]

EvReturn(op, value) == [ev |-> "return", op |-> op, value |-> value]

EvThrow(op) == [ev |-> "throw", op |-> op]

Emit(s, events) == [s EXCEPT !.trace = @ \o events]

\* Notation only: Const(value, LAMBDA x : e) is e with x standing for value,
\* as in `const x = value; e`; it is written this way so that value is
\* evaluated once.
Const(value, Body(_)) == CHOOSE r \in {Body(x) : x \in {value}} : TRUE

\* what a call hands back: the machine state, the returned value, whether it threw
Returned(s, value) == [s |-> s, result |-> value, threw |-> FALSE]

Thrown(s) == [s |-> s, result |-> [thrown |-> "Error"], threw |-> TRUE]

(***************************** collaborators *******************************)
\* faulty variant of uuid_v4: every call returns the same token
uuid_v4_Fixed(count) == "uuid-1"

\* uuid.v4(): a token no earlier call returned
uuid_v4(count) == "uuid-" \o ToString(count + 1)

\* The store's reducer raises on the lifecycles in reducerFailsOn (a handler
\* table with a slot that is not a function or that returns undefined).
ReducerRaises(action) ==
    /\ "meta" \in DOMAIN action
    /\ Get(action.meta, KEY.LIFECYCLE) \in reducerFailsOn

\* next(action): the rest of the chain, ending in the reducer
next(s, op, action) ==
    IF ReducerRaises(action)
    THEN Thrown(Emit(s, <<EvNext(op, action)>>))
    ELSE Returned(Emit(s, <<EvNext(op, action)>>), [nextResult |-> action])

(***************************** middleware.js *******************************)
\* faulty variant of isPromise: the typeof test on `then` left out
isPromise_TruthyOnly(obj) == obj.truthy

isPromise(obj) == obj.truthy /\ obj.then = "function"

\* faulty variant of handleEventHook: the hook called without try/catch
handleEventHook_NoCatch(s, op, meta, hook, arg) ==
    IF /\ meta.defined
       /\ Truthy(Get(meta.props, hook))
       /\ TypeOf(Get(meta.props, hook)) = "function"
    THEN IF Get(meta.props, hook) = "fnThrows"
         THEN Thrown(Emit(s, <<EvHook(op, hook, arg, TRUE)>>))
         ELSE Returned(Emit(s, <<EvHook(op, hook, arg, FALSE)>>), Undefined)
    ELSE Returned(s, Undefined)

\* meta[hook](...args) inside try { } catch (e) { console.error(e) }
handleEventHook(s, op, meta, hook, arg) ==
    IF /\ meta.defined
       /\ Truthy(Get(meta.props, hook))
       /\ TypeOf(Get(meta.props, hook)) = "function"
    THEN IF Get(meta.props, hook) = "fnThrows"
         THEN Returned(Emit(s, <<EvHook(op, hook, arg, TRUE), EvConsoleError(op)>>), Undefined)
         ELSE Returned(Emit(s, <<EvHook(op, hook, arg, FALSE)>>), Undefined)
    ELSE Returned(s, Undefined)

\* faulty variant of StartAction: the meta literal written without ...meta
StartAction_MarkersOnly(type, payload, meta, transactionId) ==
    [type |-> type,
     payload |-> payload,
     meta |-> Spread(KEY.LIFECYCLE :> LIFECYCLE.START,
                     KEY.TRANSACTION :> transactionId)]

\* the action handlePromise dispatches first
StartAction(type, payload, meta, transactionId) ==
    [type |-> type,
     payload |-> payload,
     meta |-> Spread(Spread(SpreadOf(meta),
                      KEY.LIFECYCLE :> LIFECYCLE.START),
                      KEY.TRANSACTION :> transactionId)]

\* faulty variant of SuccessAction: the START literal copied without changing the tag
SuccessAction_TaggedStart(c, data) ==
    [type |-> c.type,
     payload |-> data,
     meta |-> Spread(Spread(Spread(SpreadOf(c.meta),
                      "startPayload" :> c.startPayload),
                      KEY.LIFECYCLE :> LIFECYCLE.START),
                      KEY.TRANSACTION :> c.transactionId)]

\* faulty variant of SuccessAction: the FAILURE literal copied with its error flag
SuccessAction_MarkedError(c, data) ==
    [type |-> c.type,
     payload |-> data,
     error |-> TRUE,
     meta |-> Spread(Spread(Spread(SpreadOf(c.meta),
                      "startPayload" :> c.startPayload),
                      KEY.LIFECYCLE :> LIFECYCLE.SUCCESS),
                      KEY.TRANSACTION :> c.transactionId)]

\* the action `success` dispatches; c holds the variables the closure captured
SuccessAction(c, data) ==
    [type |-> c.type,
     payload |-> data,
     meta |-> Spread(Spread(Spread(SpreadOf(c.meta),
                      "startPayload" :> c.startPayload),
                      KEY.LIFECYCLE :> LIFECYCLE.SUCCESS),
                      KEY.TRANSACTION :> c.transactionId)]

\* faulty variant of FailureAction: startPayload taken from the argument in scope
FailureAction_StartPayloadIsError(c, error) ==
    [type |-> c.type,
     payload |-> error,
     error |-> TRUE,
     meta |-> Spread(Spread(Spread(SpreadOf(c.meta),
                      "startPayload" :> error),
                      KEY.LIFECYCLE :> LIFECYCLE.FAILURE),
                      KEY.TRANSACTION :> c.transactionId)]

\* the action `failure` dispatches
FailureAction(c, error) ==
    [type |-> c.type,
     payload |-> error,
     error |-> TRUE,
     meta |-> Spread(Spread(Spread(SpreadOf(c.meta),
                      "startPayload" :> c.startPayload),
                      KEY.LIFECYCLE :> LIFECYCLE.FAILURE),
                      KEY.TRANSACTION :> c.transactionId)]

RECURSIVE middleware(_, _, _)

\* faulty variant of StoreDispatch: the derived action is handed to next, past
\* the store and the middleware before this one
StoreDispatch_DirectNext(s, op, action) == next(s, op, action)

\* store.dispatch(action): the whole chain again, this middleware included
StoreDispatch(s, op, action) ==
    Const(action, LAMBDA a :
    Const(Emit(s, <<EvDispatch(op, a)>>), LAMBDA s1 : middleware(s1, op, a)))

\* faulty variant of success: only the most recent call of the store is still
\* reported, an earlier one counts as superseded and is dropped
success_OnlyLatest(s, op, data) ==
    Const(s.closures[op], LAMBDA c :
        IF \E later \in DOMAIN s.closures : later > op THEN Returned(s, [payload |-> data])
        ELSE
        Const(StoreDispatch(s, op, SuccessAction(c, data)), LAMBDA d :
        IF d.threw THEN Thrown(d.s) ELSE
        Const(handleEventHook(d.s, op, c.meta, "onSuccess", data), LAMBDA h1 :
        Const(handleEventHook(h1.s, op, c.meta, "onFinish", "true"), LAMBDA h2 :
        Returned(h2.s, [payload |-> data])))))

\* faulty variant of success: onFinish called before onSuccess
success_FinishFirst(s, op, data) ==
    Const(s.closures[op], LAMBDA c :
        Const(StoreDispatch(s, op, SuccessAction(c, data)), LAMBDA d :
        IF d.threw THEN Thrown(d.s) ELSE
        Const(handleEventHook(d.s, op, c.meta, "onFinish", "true"), LAMBDA h1 :
        Const(handleEventHook(h1.s, op, c.meta, "onSuccess", data), LAMBDA h2 :
        Returned(h2.s, [payload |-> data])))))

\* const success = data => {...}
success(s, op, data) ==
    Const(s.closures[op], LAMBDA c :
        Const(StoreDispatch(s, op, SuccessAction(c, data)), LAMBDA d :
        IF d.threw THEN Thrown(d.s) ELSE
        Const(handleEventHook(d.s, op, c.meta, "onSuccess", data), LAMBDA h1 :
        IF h1.threw THEN Thrown(h1.s) ELSE
        Const(handleEventHook(h1.s, op, c.meta, "onFinish", "true"), LAMBDA h2 :
        IF h2.threw THEN Thrown(h2.s) ELSE
        Returned(h2.s, [payload |-> data])))))

\* faulty variant of failure: the error is thrown again after it was reported
failure_Rethrows(s, op, error) ==
    Const(s.closures[op], LAMBDA c :
        Const(StoreDispatch(s, op, FailureAction(c, error)), LAMBDA d :
        Const(handleEventHook(d.s, op, c.meta, "onFailure", error), LAMBDA h1 :
        Const(handleEventHook(h1.s, op, c.meta, "onFinish", "false"), LAMBDA h2 :
        Thrown(h2.s)))))

\* const failure = error => {...}
failure(s, op, error) ==
    Const(s.closures[op], LAMBDA c :
        Const(StoreDispatch(s, op, FailureAction(c, error)), LAMBDA d :
        IF d.threw THEN Thrown(d.s) ELSE
        Const(handleEventHook(d.s, op, c.meta, "onFailure", error), LAMBDA h1 :
        IF h1.threw THEN Thrown(h1.s) ELSE
        Const(handleEventHook(h1.s, op, c.meta, "onFinish", "false"), LAMBDA h2 :
        IF h2.threw THEN Thrown(h2.s) ELSE
        Returned(h2.s, [error |-> TRUE, payload |-> error])))))

(***************************** promises ************************************)
\* A promise object.  kind "native": reactions run later, from the job queue;
\* kind "sync": a thenable that calls its reactions as soon as it can (inside
\* then() when already settled, inside its own settlement otherwise).  Either
\* way then() hands back a derived promise that settles with what the
\* reaction returns or throws.
PendingPromise(kind) ==
    [kind |-> kind, state |-> "pending", value |-> Undefined, reactions |-> <<>>]

PendingHandle == [state |-> "pending", value |-> [none |-> TRUE]]

\* faulty variant of RunReaction: the continuations registered as
\* then(success).catch(failure), so that an error raised by success reaches
\* failure
RunReaction_CatchAfterSuccess(s, op, state, value) ==
    Const(Emit(s, <<EvContinuation(op, IF state = "fulfilled" THEN "success" ELSE "failure",
                                   value)>>), LAMBDA s1 :
    Const(IF state = "fulfilled" THEN success(s1, op, value) ELSE failure(s1, op, value),
          LAMBDA r :
    Const(IF state = "fulfilled" /\ r.threw THEN failure(r.s, op, "Error") ELSE r,
          LAMBDA r2 :
    [r2.s EXCEPT !.handles[op] =
        [state |-> IF r2.threw THEN "rejected" ELSE "fulfilled", value |-> r2.result]])))

\* one reaction registered by then(success, failure): success for a
\* fulfilment, failure for a rejection; what it returns or throws settles the
\* derived promise (the handle)
RunReaction(s, op, state, value) ==
    Const(Emit(s, <<EvContinuation(op, IF state = "fulfilled" THEN "success" ELSE "failure",
                                   value)>>), LAMBDA s1 :
    Const(IF state = "fulfilled" THEN success(s1, op, value) ELSE failure(s1, op, value),
          LAMBDA r :
    [r.s EXCEPT !.handles[op] =
        [state |-> IF r.threw THEN "rejected" ELSE "fulfilled", value |-> r.result]]))

RECURSIVE RunReactions(_, _, _, _)
RunReactions(s, ops, state, value) ==
    IF ops = <<>> THEN s
    ELSE Const(RunReaction(s, Head(ops), state, value), LAMBDA s1 :
               RunReactions(s1, Tail(ops), state, value))

RECURSIVE QueueReactions(_, _, _, _)
QueueReactions(s, ops, state, value) ==
    IF ops = <<>> THEN s
    ELSE Const([s EXCEPT !.jobs = Append(@, [op |-> Head(ops), state |-> state, value |-> value])],
               LAMBDA s1 : QueueReactions(s1, Tail(ops), state, value))

\* faulty variant of PromiseThen: the continuations attached once and then attached
\* again for the returned promise
PromiseThen_AttachedTwice(s, op, promise) ==
    IF promise.then # "function" THEN Thrown(s)
    ELSE
    LET p == s.promises[promise.pid]
    IN  Const([s EXCEPT !.handles = (op :> PendingHandle) @@ @], LAMBDA s1 :
        IF p.state = "pending"
        THEN Returned([s1 EXCEPT !.promises[promise.pid].reactions = @ \o <<op, op>>],
                      [handle |-> op])
        ELSE IF p.kind = "native"
        THEN Returned(QueueReactions(s1, <<op, op>>, p.state, p.value), [handle |-> op])
        ELSE Returned(RunReactions(s1, <<op, op>>, p.state, p.value), [handle |-> op]))

\* promise.then(success, failure) of the originating call op
PromiseThen(s, op, promise) ==
    IF promise.then # "function" THEN Thrown(s)    \* TypeError: then is not a function
    ELSE
    LET p == s.promises[promise.pid]
    IN  Const([s EXCEPT !.handles = (op :> PendingHandle) @@ @], LAMBDA s1 :
        IF p.state = "pending"
        THEN Returned([s1 EXCEPT !.promises[promise.pid].reactions = Append(@, op)],
                      [handle |-> op])
        ELSE IF p.kind = "native"
        THEN Returned(QueueReactions(s1, <<op>>, p.state, p.value), [handle |-> op])
        ELSE Returned(RunReaction(s1, op, p.state, p.value), [handle |-> op]))

(***************************** middleware.js, continued ********************)
\* faulty variant of handlePromise: the continuations are attached first, START is
\* dispatched afterwards
handlePromise_ThenFirst(s, op, action) ==
    LET promise       == PromiseField(action)
        type          == Get(action, "type")
        payload       == Get(action, "payload")
        meta          == MetaField(action)
        transactionId == uuid_v4(s.uuidCount)
    IN  Const([s EXCEPT !.uuidCount = @ + 1,
                        !.closures = (op :> [type |-> type,
                                             meta |-> meta,
                                             startPayload |-> payload,
                                             transactionId |-> transactionId]) @@ @], LAMBDA s1 :
        Const(PromiseThen(s1, op, promise), LAMBDA t :
        Const(StoreDispatch(t.s, op, StartAction(type, payload, meta, transactionId)), LAMBDA d :
        Const(handleEventHook(d.s, op, meta, "onStart", payload), LAMBDA h :
        Returned(h.s, t.result)))))

handlePromise(s, op, action) ==
    LET promise       == PromiseField(action)
        type          == Get(action, "type")
        payload       == Get(action, "payload")
        meta          == MetaField(action)
        transactionId == uuid_v4(s.uuidCount)
        startPayload  == payload
    IN  Const(StoreDispatch([s EXCEPT !.uuidCount = @ + 1], op,
                            StartAction(type, payload, meta, transactionId)), LAMBDA d :
        IF d.threw THEN Thrown(d.s) ELSE
        Const(handleEventHook(d.s, op, meta, "onStart", payload), LAMBDA h :
        IF h.threw THEN Thrown(h.s) ELSE
        Const([h.s EXCEPT !.closures =
                  (op :> [type |-> type,
                          meta |-> meta,
                          startPayload |-> startPayload,
                          transactionId |-> transactionId]) @@ @], LAMBDA s1 :
        PromiseThen(s1, op, promise))))

\* faulty variant of middleware: action === null, so that undefined goes on to
\* action.promise and raises a TypeError
middleware_StrictNull(s, op, action) ==
    IF action = NullAction THEN Returned(s, NullAction)
    ELSE IF IsNullish(action) THEN Thrown(s)
    ELSE IF isPromise(PromiseField(action)) THEN handlePromise(s, op, action)
    ELSE next(s, op, action)

middleware(s, op, action) ==
    IF IsNullish(action) THEN Returned(s, NullAction)
    ELSE IF isPromise(PromiseField(action)) THEN handlePromise(s, op, action)
    ELSE next(s, op, action)

(***************************** inputs **************************************)
Types == {"LOAD"}

Payloads == {Undefined, "id-1"}

Data == {"data"}

Errors == {"err"}

Hooks == {"onStart", "onSuccess", "onFailure", "onFinish"}

AllHooks(v) == [h \in Hooks |-> v]

\* caller-supplied meta objects
Metas ==
    { AllHooks("fnReturns"),
      AllHooks("fnThrows"),
      [onStart |-> "fnThrows", onSuccess |-> "fnReturns", onFinish |-> "not a function"] }

\* the promise objects calling code attaches to its actions: a native promise
\* and a thenable that runs its reactions synchronously
PromisePool == <<"native", "sync">>

PromiseIds == DOMAIN PromisePool

PromiseActions ==
       { [type |-> t, payload |-> p, promise |-> Thenable(i)] :
             t \in Types, p \in Payloads, i \in PromiseIds }
  \cup { [type |-> t, payload |-> "id-1", promise |-> Thenable(i), meta |-> m] :
             t \in Types, i \in PromiseIds, m \in Metas }

PlainActions ==
       { [type |-> t, payload |-> "id-1"] : t \in Types }
  \cup { [type |-> t, promise |-> v, meta |-> AllHooks("fnReturns")] :
             t \in Types, v \in {NotAnObject, ObjectWithoutThen, ObjectWithStringThen} }

OriginatingActions == {NullAction, UndefinedAction} \cup PlainActions \cup PromiseActions

(***************************** the state machine ***************************)
Machine ==
    [trace |-> trace, uuidCount |-> uuidCount, promises |-> promises,
     jobs |-> jobs, closures |-> closures, handles |-> handles]

Becomes(s) ==
    /\ trace' = s.trace
    /\ uuidCount' = s.uuidCount
    /\ promises' = s.promises
    /\ jobs' = s.jobs
    /\ closures' = s.closures
    /\ handles' = s.handles

InitMachine ==
    /\ trace = <<>>
    /\ uuidCount = 0
    /\ promises = [pid \in PromiseIds |-> PendingPromise(PromisePool[pid])]
    /\ jobs = <<>>
    /\ closures = <<>>
    /\ handles = <<>>
    /\ calls = <<>>

\* no call of handle is modelled
NoHandleCall == [called |-> FALSE]

\* a store whose reducer accepts every action
Init ==
    /\ InitMachine
    /\ reducerFailsOn = {}
    /\ handleArgs = NoHandleCall
    /\ handleOutcome = NoHandleCall

\* dispatch(action) by calling code: one call of the middleware
Dispatch(action) ==
    /\ Len(calls) < MaxOps
    /\ LET op == Len(calls) + 1
       IN  \E s \in {Emit(Machine, <<EvCall(op, action)>>)} :
           \E r \in {middleware(s, op, action)} :
               Becomes(Emit(r.s, <<IF r.threw THEN EvThrow(op) ELSE EvReturn(op, r.result)>>))
    /\ calls' = Append(calls, action)
    /\ UNCHANGED <<reducerFailsOn, handleArgs, handleOutcome>>

\* the tracked operation finishes: promise pid is fulfilled or rejected
Settle(pid, state, value) ==
    /\ promises[pid].state = "pending"
    /\ LET p == promises[pid]
       IN  \E s1 \in {[Machine EXCEPT !.promises[pid] =
                          [kind |-> p.kind, state |-> state, value |-> value,
                           reactions |-> <<>>]]} :
           \E s \in {IF p.kind = "native"
                     THEN QueueReactions(s1, p.reactions, state, value)
                     ELSE RunReactions(s1, p.reactions, state, value)} : Becomes(s)
    /\ UNCHANGED <<calls, reducerFailsOn, handleArgs, handleOutcome>>

\* the host runs the oldest queued promise reaction
RunJob ==
    /\ jobs # <<>>
    /\ LET j == Head(jobs)
       IN  \E s1 \in {[Machine EXCEPT !.jobs = Tail(@)]} :
           \E s \in {RunReaction(s1, j.op, j.state, j.value)} : Becomes(s)
    /\ UNCHANGED <<calls, reducerFailsOn, handleArgs, handleOutcome>>

Next ==
    \/ \E action \in OriginatingActions : Dispatch(action)
    \/ \E pid \in PromiseIds : \E v \in Data : Settle(pid, "fulfilled", v)
    \/ \E pid \in PromiseIds : \E e \in Errors : Settle(pid, "rejected", e)
    \/ RunJob

Spec == Init /\ [][Next]_vars

\* a store whose reducer raises a configuration error on some lifecycles
InitReducerFails ==
    /\ InitMachine
    /\ reducerFailsOn \in SUBSET {LIFECYCLE.START, LIFECYCLE.SUCCESS, LIFECYCLE.FAILURE}
    /\ handleArgs = NoHandleCall
    /\ handleOutcome = NoHandleCall

SpecReducerFails == InitReducerFails /\ [][Next]_vars

(***************************** reading the trace ***************************)
Idx == DOMAIN trace

Ops == DOMAIN calls

\* originating calls that took the promise pathway
TrackedOps == {op \in Ops : ~IsNullish(calls[op]) /\ isPromise(PromiseField(calls[op]))}

LifecycleOf(action) == Get(action.meta, KEY.LIFECYCLE)

TransactionOf(action) == Get(action.meta, KEY.TRANSACTION)

\* positions where store.dispatch was called with an action of that lifecycle
Dispatched(lifecycle) ==
    {i \in Idx : trace[i].ev = "dispatch" /\ LifecycleOf(trace[i].action) = lifecycle}

Terminal == Dispatched(LIFECYCLE.SUCCESS) \cup Dispatched(LIFECYCLE.FAILURE)

OfOp(positions, op) == {i \in positions : trace[i].op = op}

CallAt(op) == CHOOSE i \in Idx : trace[i].ev = "call" /\ trace[i].op = op

\* where the originating call op handed control back (returned or threw)
EndAt(op) == CHOOSE i \in Idx : trace[i].ev \in {"return", "throw"} /\ trace[i].op = op

Continuations(op) == {i \in Idx : trace[i].ev = "continuation" /\ trace[i].op = op}

HookCalls(op, hook) ==
    {i \in Idx : trace[i].ev = "hook" /\ trace[i].op = op /\ trace[i].hook = hook}

(***************************** claims **************************************)
\* C1: every originating call whose promise is a thenable dispatches exactly
\* one START action through store.dispatch, inside the call (after it is
\* entered, before it returns) and before any continuation of the promise
\* runs; there is never a second START for that call.
C1_OneStartBeforeReturn ==
    \A op \in TrackedOps :
        /\ Cardinality(OfOp(Dispatched(LIFECYCLE.START), op)) = 1
        /\ \A i \in OfOp(Dispatched(LIFECYCLE.START), op) :
              /\ CallAt(op) < i
              /\ i < EndAt(op)
              /\ \A j \in Continuations(op) : i < j

\* a thenable that was already settled ran its continuation inside the call,
\* and a second call is tracked as well
C1_Witness ==
    /\ Cardinality(TrackedOps) = 2
    /\ \E op \in TrackedOps : \E j \in Continuations(op) : j < EndAt(op)

\* C2: per transaction identifier at most one SUCCESS or FAILURE action is
\* ever dispatched, and a terminal action carries the transaction identifier
\* of the START action of its own originating call.
C2_AtMostOneTerminalSameTransaction ==
    /\ \A i, j \in Terminal :
          TransactionOf(trace[i].action) = TransactionOf(trace[j].action) => i = j
    /\ \A i \in Terminal :
          /\ OfOp(Dispatched(LIFECYCLE.START), trace[i].op) # {}
          /\ \A j \in OfOp(Dispatched(LIFECYCLE.START), trace[i].op) :
                TransactionOf(trace[j].action) = TransactionOf(trace[i].action)

\* two calls carried the same promise and each got its own terminal action
C2_Witness ==
    /\ Cardinality(Terminal) = 2
    /\ \A op \in Ops : op \in TrackedOps /\ PromiseField(calls[op]).pid = 1

\* the host eventually runs a queued promise reaction
FairSpec == Spec /\ WF_vars(RunJob)

PromiseOf(op) == promises[PromiseField(calls[op]).pid]

\* tracked calls whose promise has settled and whose terminal action (SUCCESS
\* with the value for a fulfilment, FAILURE with the error for a rejection)
\* has not been dispatched
Owed ==
    {op \in TrackedOps :
        \/ /\ PromiseOf(op).state = "fulfilled"
           /\ ~\E i \in OfOp(Dispatched(LIFECYCLE.SUCCESS), op) :
                  trace[i].action.payload = PromiseOf(op).value
        \/ /\ PromiseOf(op).state = "rejected"
           /\ ~\E i \in OfOp(Dispatched(LIFECYCLE.FAILURE), op) :
                  trace[i].action.payload = PromiseOf(op).value}

\* C3: once the promise of a tracked call has settled, its terminal action is
\* eventually dispatched, whatever else is in flight: every settled tracked
\* operation that still lacks its terminal action gets it.
C3_SettledLeadsToTerminal == (Owed # {}) ~> (Owed = {})

\* the first call got its terminal action from a queued reaction, after a
\* second call had been made
C3_Witness ==
    /\ Cardinality(TrackedOps) = 2
    /\ \E i \in OfOp(Terminal, 1) : i > EndAt(2)

\* C4: within one transaction the START dispatch comes strictly before the
\* SUCCESS or FAILURE dispatch, also when the thenable runs the continuation
\* while it is being registered.
C4_StartPrecedesTerminal ==
    \A i \in Terminal :
        /\ \E j \in Dispatched(LIFECYCLE.START) :
              TransactionOf(trace[j].action) = TransactionOf(trace[i].action)
        /\ \A j \in Dispatched(LIFECYCLE.START) :
              TransactionOf(trace[j].action) = TransactionOf(trace[i].action) => j < i

\* the second call's terminal action came inside that call and before the
\* terminal action of the first call
C4_Witness ==
    \E i \in OfOp(Terminal, 2) : \E j \in OfOp(Terminal, 1) : i < EndAt(2) /\ i < j

\* C5: the startPayload of every SUCCESS or FAILURE action is the payload of
\* the START action that carries the same transaction identifier.
C5_StartPayloadIsStartsPayload ==
    \A i \in Terminal :
        /\ "startPayload" \in DOMAIN trace[i].action.meta
        /\ \E j \in Dispatched(LIFECYCLE.START) :
              TransactionOf(trace[j].action) = TransactionOf(trace[i].action)
        /\ \A j \in Dispatched(LIFECYCLE.START) :
              TransactionOf(trace[j].action) = TransactionOf(trace[i].action)
                 => trace[i].action.meta["startPayload"] = trace[j].action.payload

\* two calls with different payloads were both started before either
\* finished, and one of them failed
C5_Witness ==
    /\ \E i \in OfOp(Terminal, 1) : \E j \in OfOp(Terminal, 2) :
          /\ CallAt(2) < i
          /\ CallAt(2) < j
          /\ trace[i].action.meta["startPayload"] # trace[j].action.meta["startPayload"]
    /\ Dispatched(LIFECYCLE.FAILURE) # {}

\* C6: the middleware call of a tracked action returns the handle, and the
\* handle never rejects: it resolves with {payload: data} after a fulfilment
\* and with {error: true, payload: error} after a rejection, which reaches
\* the reducer as the FAILURE action.
C6_HandleResolvesNormalized ==
    \A op \in TrackedOps :
        /\ trace[EndAt(op)] = EvReturn(op, [handle |-> op])
        /\ op \in DOMAIN handles
        /\ handles[op].state # "rejected"
        /\ handles[op].state = "fulfilled" =>
              \/ /\ PromiseOf(op).state = "fulfilled"
                 /\ handles[op].value = [payload |-> PromiseOf(op).value]
              \/ /\ PromiseOf(op).state = "rejected"
                 /\ handles[op].value = [error |-> TRUE, payload |-> PromiseOf(op).value]
                 /\ \E i \in Idx :
                       /\ trace[i].ev = "next"
                       /\ trace[i].op = op
                       /\ LifecycleOf(trace[i].action) = LIFECYCLE.FAILURE
                       /\ trace[i].action.payload = PromiseOf(op).value
                       /\ Get(trace[i].action, "error") = TRUE

\* a tracked operation failed and its handle resolved
C6_Witness ==
    \E op \in TrackedOps :
        /\ PromiseOf(op).state = "rejected"
        /\ handles[op].state = "fulfilled"

\* the hook slot of the originating action holds a function
HookIsFunction(op, hook) ==
    /\ MetaField(calls[op]).defined
    /\ Get(MetaField(calls[op]).props, hook) \in FunctionValues

\* the handle of op, once settled, carries the normal value for the outcome
\* of the promise
HandleIsNormal(op) ==
    /\ op \in DOMAIN handles
    /\ handles[op].state # "rejected"
    /\ handles[op].state = "fulfilled" =>
          \/ /\ PromiseOf(op).state = "fulfilled"
             /\ handles[op].value = [payload |-> PromiseOf(op).value]
          \/ /\ PromiseOf(op).state = "rejected"
             /\ handles[op].value = [error |-> TRUE, payload |-> PromiseOf(op).value]

\* C7: an error thrown by a hook is caught and logged and interrupts nothing:
\* the middleware call still returns, the continuations are registered (so a
\* settled promise has its terminal action dispatched or its reaction queued),
\* onFinish is still invoked after a throwing onSuccess or onFailure, and the
\* handle resolves with the normal value.
C7_HookErrorsAreIsolated ==
    \A i \in Idx :
        (trace[i].ev = "hook" /\ trace[i].threw) =>
            LET op == trace[i].op
            IN  /\ i + 1 \in Idx
                /\ trace[i + 1] = EvConsoleError(op)
                /\ trace[EndAt(op)].ev = "return"
                /\ HandleIsNormal(op)
                /\ PromiseOf(op).state # "pending" =>
                      \/ OfOp(Terminal, op) # {}
                      \/ \E k \in DOMAIN jobs : jobs[k].op = op
                /\ (trace[i].hook \in {"onSuccess", "onFailure"} /\ HookIsFunction(op, "onFinish"))
                      => \E j \in HookCalls(op, "onFinish") : j > i

\* every hook of one call threw (onStart, onSuccess and onFinish) and the
\* handle resolved all the same
C7_Witness ==
    \E op \in TrackedOps :
        /\ \A h \in {"onStart", "onSuccess", "onFinish"} :
              \E i \in HookCalls(op, h) : trace[i].threw
        /\ handles[op].state = "fulfilled"

\* C8: per originating call each hook runs at most once and only in its
\* place: onStart(payload, getState) after the START dispatch and inside the
\* call; after a SUCCESS dispatch onSuccess(data, getState) and then
\* onFinish(true, getState); after a FAILURE dispatch onFailure(error,
\* getState) and then onFinish(false, getState); never onSuccess and
\* onFailure both, and onFinish gets true exactly when SUCCESS was dispatched.
C8_HooksInOrder ==
    \A op \in TrackedOps :
        LET starts    == OfOp(Dispatched(LIFECYCLE.START), op)
            successes == OfOp(Dispatched(LIFECYCLE.SUCCESS), op)
            failures  == OfOp(Dispatched(LIFECYCLE.FAILURE), op)
        IN  /\ \A h \in Hooks :
                  /\ Cardinality(HookCalls(op, h)) <= 1
                  /\ HookCalls(op, h) # {} => HookIsFunction(op, h)
            /\ HookIsFunction(op, "onStart") =>
                  \E i \in HookCalls(op, "onStart") :
                      /\ trace[i].args = <<Get(calls[op], "payload"), "getState">>
                      /\ \E j \in starts : j < i
                      /\ i < EndAt(op)
            /\ successes = {} => HookCalls(op, "onSuccess") = {}
            /\ failures = {} => HookCalls(op, "onFailure") = {}
            /\ (successes = {} /\ failures = {}) => HookCalls(op, "onFinish") = {}
            /\ \A j \in successes :
                  /\ HookCalls(op, "onFailure") = {}
                  /\ HookIsFunction(op, "onSuccess") =>
                        \E i \in HookCalls(op, "onSuccess") :
                            j < i /\ trace[i].args = <<trace[j].action.payload, "getState">>
                  /\ HookIsFunction(op, "onFinish") =>
                        \E k \in HookCalls(op, "onFinish") :
                            /\ j < k
                            /\ trace[k].args = <<"true", "getState">>
                            /\ \A i \in HookCalls(op, "onSuccess") : i < k
            /\ \A j \in failures :
                  /\ HookCalls(op, "onSuccess") = {}
                  /\ HookIsFunction(op, "onFailure") =>
                        \E i \in HookCalls(op, "onFailure") :
                            j < i /\ trace[i].args = <<trace[j].action.payload, "getState">>
                  /\ HookIsFunction(op, "onFinish") =>
                        \E k \in HookCalls(op, "onFinish") :
                            /\ j < k
                            /\ trace[k].args = <<"false", "getState">>
                            /\ \A i \in HookCalls(op, "onFailure") : i < k

\* one call with all four hooks succeeded and another one failed
C8_Witness ==
    /\ \E op \in TrackedOps :
          /\ OfOp(Dispatched(LIFECYCLE.SUCCESS), op) # {}
          /\ \A h \in {"onStart", "onSuccess", "onFinish"} : HookCalls(op, h) # {}
    /\ \E op \in TrackedOps :
          /\ OfOp(Dispatched(LIFECYCLE.FAILURE), op) # {}
          /\ \A h \in {"onStart", "onFailure", "onFinish"} : HookCalls(op, h) # {}

\* the step is the middleware call number Len(calls) + 1
IsCall == calls' # calls

\* C9: a middleware call with a null or undefined action returns null and
\* does nothing else: no store.dispatch, no next, no hook, no error, and no
\* change of any other state.
C9_NullishIsNoOp ==
    [][(IsCall /\ IsNullish(calls'[Len(calls')])) =>
          /\ trace' = trace \o <<EvCall(Len(calls'), calls'[Len(calls')]),
                                 EvReturn(Len(calls'), NullAction)>>
          /\ UNCHANGED <<uuidCount, promises, jobs, closures, handles>>]_vars

\* the middleware was called with null and with undefined
C9_Witness ==
    /\ \E op \in Ops : calls[op] = NullAction /\ trace[EndAt(op)].ev = "return"
    /\ \E op \in Ops : calls[op] = UndefinedAction /\ trace[EndAt(op)].ev = "return"

\* C10: a middleware call with an action whose promise is absent or is not a
\* thenable calls next once with that action, returns what next returned,
\* and does nothing else: no store.dispatch, no derived action, no hook.
C10_PlainPassesThrough ==
    [][(/\ IsCall
        /\ ~IsNullish(calls'[Len(calls')])
        /\ ~(PromiseField(calls'[Len(calls')]).truthy
               /\ PromiseField(calls'[Len(calls')]).then = "function")) =>
          /\ trace' = trace \o <<EvCall(Len(calls'), calls'[Len(calls')]),
                                 EvNext(Len(calls'), calls'[Len(calls')]),
                                 EvReturn(Len(calls'), [nextResult |-> calls'[Len(calls')]])>>
          /\ UNCHANGED <<uuidCount, promises, jobs, closures, handles>>]_vars

\* actions whose promise is an object without a callable then, carrying all
\* four hooks, and an action without a promise, went through the middleware
C10_Witness ==
    /\ \E op \in Ops :
          /\ ~IsNullish(calls[op])
          /\ PromiseField(calls[op]) = ObjectWithStringThen
          /\ HookIsFunction(op, "onStart")
          /\ trace[EndAt(op)].ev = "return"
    /\ \E op \in Ops : ~IsNullish(calls[op]) /\ "promise" \notin DOMAIN calls[op]

\* positions where store.dispatch was called with an action that carries the
\* transaction identifier id
WithTransaction(id) ==
    {i \in Idx : trace[i].ev = "dispatch" /\ TransactionOf(trace[i].action) = id}

\* C11: each tracked originating call draws its own transaction identifier:
\* the START actions of two distinct calls never carry the same identifier
\* (also when both calls dispatch the same action object while both are in
\* flight), and the derived actions that share one identifier are exactly
\* one START and at most one SUCCESS or FAILURE, all of one originating call.
C11_TransactionIdsNeverCollide ==
    /\ \A i, j \in Dispatched(LIFECYCLE.START) :
          TransactionOf(trace[i].action) = TransactionOf(trace[j].action) => i = j
    /\ \A op \in TrackedOps : \A i \in OfOp(Dispatched(LIFECYCLE.START), op) :
          LET shared == WithTransaction(TransactionOf(trace[i].action))
          IN  /\ shared \cap Dispatched(LIFECYCLE.START) = {i}
              /\ Cardinality(shared \cap Terminal) <= 1
              /\ shared \subseteq Dispatched(LIFECYCLE.START) \cup Terminal
              /\ \A k \in shared : trace[k].op = op
    /\ \A k \in Idx :
          (trace[k].ev = "dispatch" /\ TransactionOf(trace[k].action) # Undefined)
             => \E i \in Dispatched(LIFECYCLE.START) :
                   TransactionOf(trace[i].action) = TransactionOf(trace[k].action)

\* the same action object was dispatched twice, both calls were in flight
\* together, and both got their terminal action
C11_Witness ==
    /\ Len(calls) = 2
    /\ calls[1] = calls[2]
    /\ 1 \in TrackedOps
    /\ \A i \in Terminal : i > EndAt(2)
    /\ OfOp(Terminal, 1) # {}
    /\ OfOp(Terminal, 2) # {}

(***************************** caller-supplied meta keys *******************)
\* meta objects of calling code that use the key names the middleware writes
CallerMetas ==
    { [tag |-> "mine", startPayload |-> "mine"],
      (KEY.LIFECYCLE :> "mine") @@ (KEY.TRANSACTION :> "mine") @@ [tag |-> "mine"] }

CallerMetaActions ==
       { [type |-> IF "startPayload" \in DOMAIN m THEN "LOAD" ELSE "SAVE",
          payload |-> "id-1", promise |-> Thenable(i), meta |-> m] :
             i \in PromiseIds, m \in CallerMetas }
  \cup { [type |-> "SAVE", payload |-> p, promise |-> Thenable(i)] :
             p \in Payloads, i \in PromiseIds }

NextCallerMeta ==
    \/ \E action \in CallerMetaActions : Dispatch(action)
    \/ \E pid \in PromiseIds : \E v \in Data : Settle(pid, "fulfilled", v)
    \/ \E pid \in PromiseIds : \E e \in Errors : Settle(pid, "rejected", e)
    \/ RunJob

SpecCallerMeta == Init /\ [][NextCallerMeta]_vars

\* the keys the middleware writes into the meta of a derived action
WrittenKeys(action) ==
    {KEY.LIFECYCLE, KEY.TRANSACTION}
       \cup (IF LifecycleOf(action) = LIFECYCLE.START THEN {} ELSE {"startPayload"})

\* positions of the actions derived for the originating call op
Derived(op) == {i \in Idx : trace[i].ev = "dispatch" /\ trace[i].op = op}

\* the derived action keeps the type of the originating action and has no
\* promise property
KeepsTypeDropsPromise(op, i) ==
    /\ trace[i].action.type = calls[op].type
    /\ "promise" \notin DOMAIN trace[i].action

\* C12 as stated: every key/value pair of the caller-supplied meta appears
\* unmodified in the meta of each derived action, whatever the keys are
\* named; the derived actions keep the type and carry no promise.
C12_Original ==
    \A op \in TrackedOps : \A i \in Derived(op) :
        /\ \A k \in DOMAIN SpreadOf(MetaField(calls[op])) :
              /\ k \in DOMAIN trace[i].action.meta
              /\ trace[i].action.meta[k] = calls[op].meta[k]
        /\ KeepsTypeDropsPromise(op, i)

\* C12 (amended): every key/value pair of the caller-supplied meta whose key
\* is not one the middleware writes (the lifecycle and transaction marker
\* keys, and startPayload on SUCCESS and FAILURE) appears unmodified in the
\* meta of each derived action; the written keys hold the middleware's own
\* values; the derived actions keep the type and carry no promise.
C12_CallerMetaCarriedExceptWrittenKeys ==
    \A op \in TrackedOps : \A i \in Derived(op) :
        /\ \A k \in DOMAIN SpreadOf(MetaField(calls[op])) \ WrittenKeys(trace[i].action) :
              /\ k \in DOMAIN trace[i].action.meta
              /\ trace[i].action.meta[k] = calls[op].meta[k]
        /\ DOMAIN trace[i].action.meta =
              DOMAIN SpreadOf(MetaField(calls[op])) \cup WrittenKeys(trace[i].action)
        /\ LifecycleOf(trace[i].action) \in
              {LIFECYCLE.START, LIFECYCLE.SUCCESS, LIFECYCLE.FAILURE}
        /\ \A j \in OfOp(Dispatched(LIFECYCLE.START), op) :
              /\ TransactionOf(trace[i].action) = TransactionOf(trace[j].action)
              /\ TransactionOf(trace[j].action) = uuid_v4(Cardinality(
                    {n \in Dispatched(LIFECYCLE.START) : n < j}))
              /\ i \in Terminal =>
                    trace[i].action.meta["startPayload"] = Get(calls[op], "payload")
        /\ KeepsTypeDropsPromise(op, i)

\* calls whose meta uses startPayload and a marker key got their START and
\* terminal actions, one SUCCESS and one FAILURE, under different types
C12_Witness ==
    /\ Len(calls) = 2
    /\ calls[1].type # calls[2].type
    /\ \E op \in TrackedOps :
          /\ "startPayload" \in DOMAIN SpreadOf(MetaField(calls[op]))
          /\ OfOp(Terminal, op) # {}
    /\ \E op \in TrackedOps :
          /\ KEY.LIFECYCLE \in DOMAIN SpreadOf(MetaField(calls[op]))
          /\ OfOp(Terminal, op) # {}
    /\ Dispatched(LIFECYCLE.SUCCESS) # {}
    /\ Dispatched(LIFECYCLE.FAILURE) # {}

(***************************** handle (middleware.js 100-180) **************)
\* A handler table is the object literal the reducer passes: its own
\* properties in insertion order.  A slot holds undefined, null, a string or
\* a function; the functions are
\*   "fnTag"              (state, action) => state + ">" + <its slot name>
\*   "fnReturnsUndefined" a block body without return
\*   "fnReturnsNull"      () => null
\*   "fnReturnsFalse"     () => false
HandlerFunctions == {"fnTag", "fnReturnsUndefined", "fnReturnsNull", "fnReturnsFalse"}

Prop(key, value) == [key |-> key, value |-> value]

\* Object.keys(obj)
ObjectKeys(obj) == [i \in DOMAIN obj |-> obj[i].key]

HasOwn(obj, key) == \E i \in DOMAIN obj : obj[i].key = key

\* obj[key] of an object literal: undefined when it has no such property
PropertyOf(obj, key) ==
    IF HasOwn(obj, key)
    THEN obj[CHOOSE i \in DOMAIN obj : obj[i].key = key].value
    ELSE Undefined

\* typeof of a slot value
TypeOfSlot(v) ==
    IF v \in HandlerFunctions THEN "function"
    ELSE IF v = Undefined THEN "undefined"
    ELSE IF v = Null THEN "object"
    ELSE "string"

\* fn(state, action) of a handler function sitting in slot `name`
CallHandler(fn, name, state, action) ==
    CASE fn = "fnTag"              -> state \o ">" \o name
      [] fn = "fnReturnsUndefined" -> Undefined
      [] fn = "fnReturnsNull"      -> Null
      [] fn = "fnReturnsFalse"     -> "false"

\* what a step of handle hands on: the handler invocations so far, the state,
\* and the error if one was raised
Continue(log, state) == [log |-> log, state |-> state, threw |-> FALSE]

Raise(log, error) == [log |-> log, error |-> error, threw |-> TRUE]

Invocation(name, state, action) == [name |-> name, state |-> state, action |-> action]

VALID_KEYS ==
    [start |-> TRUE, success |-> TRUE, failure |-> TRUE, finish |-> TRUE, always |-> TRUE]

\* properties every object literal inherits from Object.prototype; each
\* holds a truthy value (a function, or Object.prototype for __proto__)
ObjectPrototypeKeys ==
    {"constructor", "toString", "valueOf", "hasOwnProperty", "isPrototypeOf",
     "propertyIsEnumerable", "toLocaleString", "__proto__", "__defineGetter__",
     "__defineSetter__", "__lookupGetter__", "__lookupSetter__"}

\* !!VALID_KEYS[key]
IsValidKey(key) == key \in DOMAIN VALID_KEYS \/ key \in ObjectPrototypeKeys

ActionType(action) == Get(action, "type")

\* verifyHandlers: the first key, in Object.keys order, that is not valid
\* raises; the message names action.type and the key
verifyHandlers(log, handlers, action) ==
    LET keys == ObjectKeys(handlers)
        bad  == {i \in DOMAIN keys : ~IsValidKey(keys[i])}
    IN  IF bad = {} THEN Continue(log, Undefined)
        ELSE Raise(log, [kind |-> "invalid key",
                         key |-> keys[CHOOSE i \in bad : \A j \in bad : i <= j],
                         type |-> ActionType(action)])

\* faulty variant of safeMap: the result of the handler is not checked, and a
\* slot that is not a function is skipped
safeMap_Unchecked(log, state, fn, action, name) ==
    IF TypeOfSlot(fn) = "function"
    THEN Continue(Append(log, Invocation(name, state, action)),
                  CallHandler(fn, name, state, action))
    ELSE Continue(log, state)

\* safeMap(state, fn, action, name); log collects the handler invocations
safeMap(log, state, fn, action, name) ==
    CASE TypeOfSlot(fn) = "function" ->
            LET result == CallHandler(fn, name, state, action)
                log1   == Append(log, Invocation(name, state, action))
            IN  IF result # Undefined
                THEN Continue(log1, result)
                ELSE Raise(log1, [kind |-> "returned undefined", name |-> name,
                                  type |-> ActionType(action)])
      [] TypeOfSlot(fn) = "undefined" -> Continue(log, state)
      [] OTHER ->
            Raise(log, [kind |-> "not a function", name |-> name,
                        type |-> ActionType(action), found |-> TypeOfSlot(fn)])

\* two safeMap calls in a row: the second gets the state the first returned
\* and is skipped when the first raised
Then(first, fn, action, name) ==
    IF first.threw THEN first ELSE safeMap(first.log, first.state, fn, action, name)

\* const lifecycle = meta ? meta[KEY.LIFECYCLE] : null
LifecycleMarker(action) ==
    IF "meta" \in DOMAIN action THEN Get(action.meta, KEY.LIFECYCLE) ELSE Null

\* the switch on the lifecycle and the `always` handler after it
Route(log, startingState, action, handlers, lifecycle) ==
    LET staged ==
            CASE lifecycle = LIFECYCLE.START ->
                    safeMap(log, startingState, PropertyOf(handlers, "start"), action, "start")
              [] lifecycle = LIFECYCLE.SUCCESS ->
                    Then(safeMap(log, startingState, PropertyOf(handlers, "success"),
                                 action, "success"),
                         PropertyOf(handlers, "finish"), action, "finish")
              [] lifecycle = LIFECYCLE.FAILURE ->
                    Then(safeMap(log, startingState, PropertyOf(handlers, "failure"),
                                 action, "failure"),
                         PropertyOf(handlers, "finish"), action, "finish")
              [] OTHER -> Continue(log, startingState)
    IN  Then(staged, PropertyOf(handlers, "always"), action, "always")

UsageError(log, action) == Raise(log, [kind |-> "usage", type |-> ActionType(action)])

\* faulty variant of handle: SUCCESS without its break, so that the FAILURE
\* case runs as well
handle_SuccessFallsThrough(NODE_ENV, startingState, action, handlers) ==
    LET verified == IF NODE_ENV = "development"
                    THEN verifyHandlers(<<>>, handlers, action)
                    ELSE Continue(<<>>, Undefined)
        lifecycle == LifecycleMarker(action)
    IN  IF verified.threw THEN verified
        ELSE IF lifecycle \in {Null, Undefined} THEN UsageError(<<>>, action)
        ELSE IF lifecycle = LIFECYCLE.SUCCESS
        THEN Then(Then(Then(Then(safeMap(<<>>, startingState,
                                         PropertyOf(handlers, "success"), action, "success"),
                                 PropertyOf(handlers, "finish"), action, "finish"),
                            PropertyOf(handlers, "failure"), action, "failure"),
                       PropertyOf(handlers, "finish"), action, "finish"),
                  PropertyOf(handlers, "always"), action, "always")
        ELSE Route(<<>>, startingState, action, handlers, lifecycle)

\* faulty variant of handle: an action without a marker is treated like an
\* unknown marker
handle_MarkerOptional(NODE_ENV, startingState, action, handlers) ==
    LET verified == IF NODE_ENV = "development"
                    THEN verifyHandlers(<<>>, handlers, action)
                    ELSE Continue(<<>>, Undefined)
    IN  IF verified.threw THEN verified
        ELSE Route(<<>>, startingState, action, handlers, LifecycleMarker(action))

\* handle(startingState, action, handlers) under process.env.NODE_ENV
handle(NODE_ENV, startingState, action, handlers) ==
    LET verified == IF NODE_ENV = "development"
                    THEN verifyHandlers(<<>>, handlers, action)
                    ELSE Continue(<<>>, Undefined)
        lifecycle == LifecycleMarker(action)
    IN  IF verified.threw THEN verified
        ELSE IF lifecycle \in {Null, Undefined} THEN UsageError(<<>>, action)
        ELSE Route(<<>>, startingState, action, handlers, lifecycle)

(***************************** handle: inputs and specification ************)
NODE_ENVs == {"development", "test", "production", Undefined}

StartingStates == {"s"}

\* slot names in the order a reducer usually writes them
SlotOrder == <<"start", "success", "failure", "finish", "always">>

Slots == {SlotOrder[i] : i \in DOMAIN SlotOrder}

\* the object literal with the slots of S, each holding Value(slot)
Table(S, Value(_)) ==
    LET present == SelectSeq(SlotOrder, LAMBDA k : k \in S)
    IN  [i \in DOMAIN present |-> Prop(present[i], Value(present[i]))]

\* values a slot may hold besides a well-behaved function
OddValues ==
    {Undefined, Null, "a string", "fnReturnsUndefined", "fnReturnsNull", "fnReturnsFalse"}

ValidTables ==
       { Table(S, LAMBDA k : "fnTag") : S \in SUBSET Slots }
  \cup { Table(Slots, LAMBDA k : IF k = odd THEN v ELSE "fnTag") :
             odd \in Slots, v \in OddValues }
  \cup { Table({odd}, LAMBDA k : v) : odd \in Slots, v \in OddValues }
  \cup { Table(Slots, LAMBDA k : IF k = "start" THEN "fnTag" ELSE v) : v \in OddValues }

\* tables with keys outside VALID_KEYS, before or after the valid ones
HandlerTables ==
       ValidTables
  \cup { <<Prop("fail", "fnTag")>> \o t : t \in ValidTables }
  \cup { t \o <<Prop("error", Undefined), Prop("fail", "fnTag")>> : t \in ValidTables }
  \cup { <<Prop("constructor", "fnTag")>> \o t : t \in ValidTables }

\* actions a reducer may pass to handle: with each lifecycle marker, with a
\* marker the middleware never writes, and without a marker
HandleActions ==
       { [type |-> "LOAD", payload |-> "data",
          meta |-> (KEY.LIFECYCLE :> l) @@ (KEY.TRANSACTION :> "uuid-1")] :
             l \in {LIFECYCLE.START, LIFECYCLE.SUCCESS, LIFECYCLE.FAILURE,
                    "cancelled", Null, Undefined} }
  \cup { [type |-> "LOAD", payload |-> "data"],
         [type |-> "LOAD", payload |-> "data", meta |-> [tag |-> "mine"]] }

InitHandle ==
    /\ InitMachine
    /\ reducerFailsOn = {}
    /\ handleArgs \in [NODE_ENV : NODE_ENVs, startingState : StartingStates,
                       action : HandleActions, handlers : HandlerTables]
    /\ handleOutcome = NoHandleCall

\* the reducer calls handle(startingState, action, handlers)
HandleCall ==
    /\ ~handleOutcome.called
    /\ handleOutcome' =
          [called |-> TRUE] @@ handle(handleArgs.NODE_ENV, handleArgs.startingState,
                                      handleArgs.action, handleArgs.handlers)
    /\ UNCHANGED <<trace, uuidCount, promises, jobs, closures, handles, calls,
                   reducerFailsOn, handleArgs>>

NextHandle == HandleCall

SpecHandle == InitHandle /\ [][NextHandle]_vars

(***************************** claims about handle *************************)
\* the slots of the table that hold a function
DefinedSlots(handlers) ==
    {k \in Slots : PropertyOf(handlers, k) \in HandlerFunctions}

\* every own key of the table is a slot name and every slot holds undefined
\* or a function that returns a defined value
WellFormedTable(handlers) ==
    \A i \in DOMAIN handlers :
        /\ handlers[i].key \in Slots
        /\ handlers[i].value \in {Undefined, "fnTag", "fnReturnsNull", "fnReturnsFalse"}

\* the stages the reference routing applies for a marker, in order
StagesOf(marker) ==
    (IF marker = "start" THEN <<"start">>
     ELSE IF marker = "success" THEN <<"success", "finish">>
     ELSE IF marker = "failure" THEN <<"failure", "finish">>
     ELSE <<>>) \o <<"always">>

\* C13: for every non-null lifecycle marker and every table of defined
\* slots, handle ends without an error and invokes exactly the defined
\* handlers among: start for 'start'; success, finish for 'success';
\* failure, finish for 'failure'; none for any other marker; followed by
\* always.  The first handler gets the starting state, each next one the
\* state the previous one returned, all get the action, and the result is
\* what the last one returned, or the starting state when none is defined.
C13_RoutesByLifecycle ==
    (/\ handleOutcome.called
     /\ LifecycleMarker(handleArgs.action) \notin {Null, Undefined}
     /\ WellFormedTable(handleArgs.handlers)) =>
        LET applied == SelectSeq(StagesOf(handleArgs.action.meta[KEY.LIFECYCLE]),
                                 LAMBDA k : k \in DefinedSlots(handleArgs.handlers))
            log     == handleOutcome.log
            After(i) == CallHandler(PropertyOf(handleArgs.handlers, applied[i]),
                                    applied[i], log[i].state, log[i].action)
        IN  /\ ~handleOutcome.threw
            /\ Len(log) = Len(applied)
            /\ \A i \in DOMAIN log :
                  /\ log[i].name = applied[i]
                  /\ log[i].action = handleArgs.action
                  /\ log[i].state = IF i = 1 THEN handleArgs.startingState ELSE After(i - 1)
            /\ handleOutcome.state =
                  IF log = <<>> THEN handleArgs.startingState ELSE After(Len(log))

\* handle ran success, finish and always, in that order, of a table with all
\* five handlers on a SUCCESS action
C13_Witness ==
    /\ handleOutcome.called
    /\ ~handleOutcome.threw
    /\ LifecycleMarker(handleArgs.action) = LIFECYCLE.SUCCESS
    /\ DefinedSlots(handleArgs.handlers) = Slots
    /\ handleOutcome.state = "s>success>finish>always"

\* handle was called with an action that has no lifecycle marker: no meta, a
\* meta without the key, or the key holding null or undefined
CalledWithoutMarker ==
    /\ handleOutcome.called
    /\ \/ "meta" \notin DOMAIN handleArgs.action
       \/ KEY.LIFECYCLE \notin DOMAIN handleArgs.action.meta
       \/ handleArgs.action.meta[KEY.LIFECYCLE] \in {Null, Undefined}

\* the table has an own key that VALID_KEYS does not resolve
HasInvalidKey(handlers) == \E i \in DOMAIN handlers : ~IsValidKey(handlers[i].key)

\* C14 as stated: handle called on an action without a lifecycle marker
\* fails with the usage error in every build mode and invokes no handler.
C14_Original ==
    CalledWithoutMarker =>
        /\ handleOutcome.threw
        /\ handleOutcome.error.kind = "usage"
        /\ handleOutcome.log = <<>>

\* C14 (amended): handle called on an action without a lifecycle marker
\* fails in every build mode and invokes no handler of the table, always
\* included; the error is the usage error, except that in a development
\* build a table with an invalid key fails validation first and raises the
\* error naming that key.
C14_NoMarkerFailsBeforeHandlers ==
    CalledWithoutMarker =>
        /\ handleOutcome.threw
        /\ handleOutcome.log = <<>>
        /\ handleOutcome.error.kind =
              IF handleArgs.NODE_ENV = "development" /\ HasInvalidKey(handleArgs.handlers)
              THEN "invalid key" ELSE "usage"

\* handle raised the usage error in a production build, on an action
\* without meta and a table whose always slot holds a function
C14_Witness ==
    /\ CalledWithoutMarker
    /\ handleArgs.NODE_ENV = "production"
    /\ "meta" \notin DOMAIN handleArgs.action
    /\ PropertyOf(handleArgs.handlers, "always") = "fnTag"
    /\ handleOutcome.threw
    /\ handleOutcome.error.kind = "usage"

\* C15: in every build mode other than production, handle called with a
\* table that has a key outside {start, success, failure, finish, always}
\* fails with the error naming such a key and the action type before any
\* handler is applied, and a table whose keys are all in that set is never
\* rejected for a key.
C15_InvalidKeyFailsOutsideProduction ==
    (handleOutcome.called /\ handleArgs.NODE_ENV # "production") =>
        IF \E i \in DOMAIN handleArgs.handlers : handleArgs.handlers[i].key \notin Slots
        THEN /\ handleOutcome.threw
             /\ handleOutcome.error.kind = "invalid key"
             /\ handleOutcome.error.key \notin Slots
             /\ HasOwn(handleArgs.handlers, handleOutcome.error.key)
             /\ handleOutcome.error.type = handleArgs.action.type
             /\ handleOutcome.log = <<>>
        ELSE handleOutcome.threw => handleOutcome.error.kind # "invalid key"

\* the slot holds something handle cannot apply: a value that is neither
\* undefined nor a function, or a function that returns undefined
Misconfigured(handlers, k) ==
    LET v == PropertyOf(handlers, k)
    IN  \/ v \notin HandlerFunctions \cup {Undefined}
        \/ v = "fnReturnsUndefined"

\* C16: when handle gets to apply its handlers (the action has a marker and
\* the table passed validation), the first slot of the current stage that
\* holds neither undefined nor a function (null included) makes it fail with
\* the error naming the slot and the action type, and so does the first
\* function that returns undefined; no state is returned and no later
\* handler (finish, always) is invoked.  Otherwise handle returns what the
\* last applied function returned, also when that is null or false.
C16_SlotsMustBeFunctionsReturningAState ==
    (/\ handleOutcome.called
     /\ ~CalledWithoutMarker
     /\ ~(handleArgs.NODE_ENV = "development" /\ HasInvalidKey(handleArgs.handlers))) =>
        LET stages == StagesOf(handleArgs.action.meta[KEY.LIFECYCLE])
            bad    == {i \in DOMAIN stages : Misconfigured(handleArgs.handlers, stages[i])}
            first  == CHOOSE i \in bad : \A j \in bad : i <= j
            upTo   == IF bad = {} THEN Len(stages) ELSE first
            called == SelectSeq(SubSeq(stages, 1, upTo),
                                LAMBDA k : k \in DefinedSlots(handleArgs.handlers))
            log    == handleOutcome.log
        IN  /\ [i \in DOMAIN log |-> log[i].name] = called
            /\ IF bad # {}
               THEN /\ handleOutcome.threw
                    /\ "state" \notin DOMAIN handleOutcome
                    /\ handleOutcome.error.name = stages[first]
                    /\ handleOutcome.error.type = handleArgs.action.type
                    /\ handleOutcome.error.kind =
                          IF PropertyOf(handleArgs.handlers, stages[first]) \in HandlerFunctions
                          THEN "returned undefined" ELSE "not a function"
               ELSE /\ ~handleOutcome.threw
                    /\ handleOutcome.state =
                          IF log = <<>> THEN handleArgs.startingState
                          ELSE CallHandler(PropertyOf(handleArgs.handlers, log[Len(log)].name),
                                           log[Len(log)].name, log[Len(log)].state,
                                           handleArgs.action)

\* on a SUCCESS action handle failed on a null success slot without applying
\* the finish and always functions of the table
C16_Witness ==
    /\ handleOutcome.called
    /\ LifecycleMarker(handleArgs.action) = LIFECYCLE.SUCCESS
    /\ PropertyOf(handleArgs.handlers, "success") = Null
    /\ PropertyOf(handleArgs.handlers, "finish") = "fnTag"
    /\ PropertyOf(handleArgs.handlers, "always") = "fnTag"
    /\ handleOutcome.threw
    /\ handleOutcome.error.name = "success"
    /\ handleOutcome.log = <<>>

(***************************** claims about the middleware, continued ******)
\* the SUCCESS action carries the value the promise was fulfilled with, the
\* FAILURE action the value it was rejected with, and `error` is set, to
\* true, on the FAILURE action only
TerminalPayloadAndErrorFlag(i) ==
    LET action == trace[i].action
        promise == PromiseOf(trace[i].op)
    IN  /\ LifecycleOf(action) = LIFECYCLE.SUCCESS =>
              promise.state = "fulfilled" /\ action.payload = promise.value
        /\ LifecycleOf(action) = LIFECYCLE.FAILURE =>
              /\ promise.state = "rejected" /\ action.payload = promise.value
              /\ "error" \in DOMAIN action
              /\ action.error = TRUE
        /\ LifecycleOf(action) # LIFECYCLE.FAILURE => "error" \notin DOMAIN action

\* C18 as stated: the payload of a START action is absent or null, that of a
\* SUCCESS action the resolved value, that of a FAILURE action the rejection
\* value, and error is true on FAILURE only.
C18_Original ==
    \A op \in TrackedOps : \A i \in Derived(op) :
        /\ LifecycleOf(trace[i].action) = LIFECYCLE.START =>
              Get(trace[i].action, "payload") \in {Undefined, Null}
        /\ TerminalPayloadAndErrorFlag(i)

\* C18 (amended): the payload of a START action is the payload of the
\* originating action (undefined when that has none), that of a SUCCESS
\* action the resolved value, that of a FAILURE action the rejection value,
\* and error is true on FAILURE only.
C18_PayloadByStage ==
    \A op \in TrackedOps : \A i \in Derived(op) :
        /\ LifecycleOf(trace[i].action) = LIFECYCLE.START =>
              Get(trace[i].action, "payload") = Get(calls[op], "payload")
        /\ TerminalPayloadAndErrorFlag(i)

\* a call whose action has a payload was started and failed, and a call
\* whose action has none was started and succeeded
C18_Witness ==
    /\ \E op \in TrackedOps :
          /\ Get(calls[op], "payload") = "id-1"
          /\ OfOp(Dispatched(LIFECYCLE.FAILURE), op) # {}
    /\ \E op \in TrackedOps :
          /\ Get(calls[op], "payload") = Undefined
          /\ OfOp(Dispatched(LIFECYCLE.SUCCESS), op) # {}

\* positions where the action was handed to next on behalf of the call op
Forwarded(op) == {i \in Idx : trace[i].ev = "next" /\ trace[i].op = op}

\* C19: every derived action goes to store.dispatch, re-enters the
\* middleware and takes the pass-through path: it is handed to next right
\* away, once, and draws no new transaction identifier.  One originating
\* call causes exactly one START and at most one terminal action, each
\* forwarded to next exactly once, and every originating call comes to an end.
C19_DerivedActionsPassThrough ==
    /\ \A i \in Idx :
          trace[i].ev = "dispatch" =>
              /\ i + 1 \in Idx
              /\ trace[i + 1] = EvNext(trace[i].op, trace[i].action)
              /\ ~isPromise(PromiseField(trace[i].action))
    /\ \A op \in TrackedOps :
          /\ Cardinality(OfOp(Dispatched(LIFECYCLE.START), op)) = 1
          /\ Cardinality(OfOp(Terminal, op)) <= 1
          /\ \A j \in Forwarded(op) :
                /\ j - 1 \in Derived(op)
                /\ \A k \in Forwarded(op) : trace[k].action = trace[j].action => k = j
          /\ Cardinality(Forwarded(op)) = Cardinality(Derived(op))
    /\ uuidCount = Cardinality(TrackedOps)
    /\ \A op \in Ops : \E i \in Idx : trace[i].ev \in {"return", "throw"} /\ trace[i].op = op

\* two tracked calls each had their START and their terminal action
\* dispatched and forwarded
C19_Witness ==
    /\ Cardinality(TrackedOps) = 2
    /\ \A op \in TrackedOps :
          /\ OfOp(Terminal, op) # {}
          /\ Cardinality(Forwarded(op)) = 2

\* actions that carry all four hooks, given to a store whose reducer may
\* raise
HookedActions ==
    { [type |-> "LOAD", payload |-> "id-1", promise |-> Thenable(i), meta |-> AllHooks(v)] :
          i \in PromiseIds, v \in FunctionValues }

NextHooked ==
    \/ \E action \in HookedActions : Dispatch(action)
    \/ \E pid \in PromiseIds : \E v \in Data : Settle(pid, "fulfilled", v)
    \/ \E pid \in PromiseIds : \E e \in Errors : Settle(pid, "rejected", e)
    \/ RunJob

SpecHookedReducerFails == InitReducerFails /\ [][NextHooked]_vars

\* C20: the failure continuation never runs after the success continuation:
\* once a SUCCESS action of a call was dispatched, no FAILURE action of that
\* transaction, no onFailure and no onFinish(false) follows, also when
\* dispatching the SUCCESS action raised an error in the store; in that case
\* onSuccess and onFinish are not invoked either and the handle rejects.
C20_SuccessErrorSkipsFailure ==
    \A op \in TrackedOps : \A i \in OfOp(Dispatched(LIFECYCLE.SUCCESS), op) :
        /\ \A j \in Dispatched(LIFECYCLE.FAILURE) :
              /\ trace[j].op # op
              /\ TransactionOf(trace[j].action) # TransactionOf(trace[i].action)
        /\ HookCalls(op, "onFailure") = {}
        /\ \A k \in HookCalls(op, "onFinish") : trace[k].args = <<"true", "getState">>
        /\ ReducerRaises(trace[i].action) =>
              /\ HookCalls(op, "onSuccess") = {}
              /\ HookCalls(op, "onFinish") = {}
              /\ handles[op].state = "rejected"

\* the store raised on the SUCCESS action of a call that carries all four
\* hooks, after its START had gone through
C20_Witness ==
    \E op \in TrackedOps :
        /\ \A h \in Hooks : HookIsFunction(op, h)
        /\ HookCalls(op, "onStart") # {}
        /\ \E i \in OfOp(Dispatched(LIFECYCLE.SUCCESS), op) : ReducerRaises(trace[i].action)
        /\ handles[op].state = "rejected"

(***************************** handle.js (flag-based handle) ***************)
legacy_VALID_KEYS == [start |-> TRUE, success |-> TRUE, fail |-> TRUE, finish |-> TRUE]

\* !VALID_KEYS[key] is false: an own key, or one inherited from Object.prototype
legacy_IsValidKey(key) == key \in DOMAIN legacy_VALID_KEYS \/ key \in ObjectPrototypeKeys

\* verifyHandlers of handle.js: the first key, in Object.keys order, that is
\* not valid throws; the message names action.type and the key
legacy_verifyHandlers(log, handlers, action) ==
    LET keys == ObjectKeys(handlers)
        bad  == {i \in DOMAIN keys : ~legacy_IsValidKey(keys[i])}
    IN  IF bad = {} THEN Continue(log, Undefined)
        ELSE Raise(log, [kind |-> "invalid key",
                         key |-> keys[CHOOSE i \in bad : \A j \in bad : i <= j],
                         type |-> ActionType(action)])

\* fn(state): the handler gets the state only
legacy_Invocation(name, state) == [name |-> name, state |-> state]

\* safeMap of handle.js
legacy_safeMap(log, state, fn, action, name) ==
    CASE TypeOfSlot(fn) = "function" ->
            LET result == CallHandler(fn, name, state, Undefined)
                log1   == Append(log, legacy_Invocation(name, state))
            IN  IF result = Undefined
                THEN Raise(log1, [kind |-> "returned undefined", name |-> name,
                                  type |-> ActionType(action)])
                ELSE Continue(log1, result)
      [] TypeOfSlot(fn) = "undefined" -> Continue(log, state)
      [] OTHER ->
            Raise(log, [kind |-> "not a function", name |-> name,
                        type |-> ActionType(action), found |-> TypeOfSlot(fn)])

\* state = safeMap(state, ...) after an earlier statement: skipped when that
\* one threw
legacy_Then(first, fn, action, name) ==
    IF first.threw THEN first
    ELSE legacy_safeMap(first.log, first.state, fn, action, name)

\* action.start === true, action.success === true, action.error === true
FlagIsTrue(action, flag) == flag \in DOMAIN action /\ action[flag] = TRUE

\* handle(action, startingState, handlers) of handle.js
legacy_handle(action, startingState, handlers) ==
    LET verified == legacy_verifyHandlers(<<>>, handlers, action)
        init     == Continue(<<>>, startingState)
        started  == IF FlagIsTrue(action, "start")
                    THEN legacy_Then(init, PropertyOf(handlers, "start"), action, "start")
                    ELSE init
        succeeded == IF FlagIsTrue(action, "success")
                     THEN legacy_Then(legacy_Then(started,
                                          PropertyOf(handlers, "success"), action, "success"),
                                      PropertyOf(handlers, "finish"), action, "finish")
                     ELSE started
        failed   == IF FlagIsTrue(action, "error")
                    THEN legacy_Then(legacy_Then(succeeded,
                                         PropertyOf(handlers, "fail"), action, "fail"),
                                     PropertyOf(handlers, "finish"), action, "finish")
                    ELSE succeeded
    IN  IF verified.threw THEN verified
        ELSE legacy_Then(failed, PropertyOf(handlers, "always"), action, "always")

(***************************** flag-based handle: inputs *******************)
\* the slots handle.js reads from the table
LegacySlotOrder == <<"start", "success", "fail", "finish", "always">>

LegacySlots == {LegacySlotOrder[i] : i \in DOMAIN LegacySlotOrder}

\* the object literal with the slots of S and the keys of extra, each
\* holding a function
LegacyTable(S, extra) ==
    LET present == SelectSeq(LegacySlotOrder \o <<"failure">>, LAMBDA k : k \in S \cup extra)
    IN  [i \in DOMAIN present |-> Prop(present[i], "fnTag")]

LegacyTables ==
       { LegacyTable(S, {}) : S \in SUBSET LegacySlots }
  \cup { LegacyTable(S, {"failure"}) : S \in SUBSET (LegacySlots \ {"always"}) }
  \cup { <<Prop(k, v)>> : k \in LegacySlots, v \in OddValues }

Flags == {"start", "success", "error"}

\* actions of the flag protocol: each flag absent, true or false
LegacyActions ==
    { [type |-> "LOAD"] @@ f : f \in UNION { [S -> BOOLEAN] : S \in SUBSET Flags } }

InitLegacyHandle ==
    /\ InitMachine
    /\ reducerFailsOn = {}
    /\ handleArgs \in [action : LegacyActions, startingState : StartingStates,
                       handlers : LegacyTables]
    /\ handleOutcome = NoHandleCall

\* the reducer calls the flag-based handle(action, startingState, handlers)
LegacyHandleCall ==
    /\ ~handleOutcome.called
    /\ handleOutcome' =
          [called |-> TRUE] @@ legacy_handle(handleArgs.action, handleArgs.startingState,
                                             handleArgs.handlers)
    /\ UNCHANGED <<trace, uuidCount, promises, jobs, closures, handles, calls,
                   reducerFailsOn, handleArgs>>

NextLegacyHandle == LegacyHandleCall

SpecLegacyHandle == InitLegacyHandle /\ [][NextLegacyHandle]_vars

\* C21: in the flag-based handle, a table whose keys are all among the slots
\* handle applies (start, success, fail, finish, always) passes
\* verifyHandlers, and the finish handler is applied at most once per call.
C21_AppliedSlotsAreValidAndFinishOnce ==
    handleOutcome.called =>
        /\ (\A i \in DOMAIN handleArgs.handlers : handleArgs.handlers[i].key \in LegacySlots)
              => ~(handleOutcome.threw /\ handleOutcome.error.kind = "invalid key")
        /\ Cardinality({i \in DOMAIN handleOutcome.log :
                           handleOutcome.log[i].name = "finish"}) <= 1

====
